---- MODULE Spec2Model ----
(***************************************************************************)
(* Model of libakumuli/storage_engine/blockstore.cpp: the BlockStore that  *)
(* maps generation-tagged logical addresses onto a ring of fixed-capacity  *)
(* volumes.  Volume and MetaVolume are collaborators whose code is not in   *)
(* blockstore.cpp; they are modelled from their documented contracts.      *)
(***************************************************************************)
EXTENDS Integers, Sequences, FiniteSets, TLC

\* ------------------------------------------------------------------ bounds
\* Largest number of volume paths handed to BlockStore::open.
MaxVolumes == 2
\* Largest Volume capacity (in blocks).
MaxCap == 2
\* Number of append_block calls explored.
MaxCalls == 5
MaxRaceCalls == 3
\* --------------------------------------------------------------- constants
\* 2^HalfBits separates the generation from the block address inside a
\* LogicAddr.  The source shifts by 32; TLC integers are 32 bits wide, so
\* the two halves are HalfBits wide here and every generation and offset
\* the model reaches is far below 2^HalfBits.
HalfBits == 12
HalfRange == 2 ^ HalfBits
\* Content of the zero-filled destination buffer of read_block.
ZeroBlock == 0

AKU_SUCCESS == "AKU_SUCCESS"
AKU_EBAD_ARG == "AKU_EBAD_ARG"
AKU_EOVERFLOW == "AKU_EOVERFLOW"
AKU_EIO == "AKU_EIO"

\* -------------------------------------------------------------- addressing
extract_gen(addr) == addr \div HalfRange

extract_vol(addr) == addr % HalfRange

make_logic(gen, addr) == (gen % HalfRange) * HalfRange + addr

\* ------------------------------------------------------------ state
VARIABLES
    volumes,         \* volumes_: slot -> [size, blocks]
    meta,            \* meta_: slot -> [generation, nblocks]
    dirty,           \* dirty_: slot -> counter
    current_volume,  \* current_volume_
    current_gen,     \* current_gen_
    alive,           \* FALSE once AKU_PANIC has terminated the process
    result,          \* what the last call returned to its caller
    issued,          \* history: <<address, payload>> of every successful append
    retired,         \* history: addresses issued against a generation later reset
    calls,           \* history: number of append_block calls made
    faulted,         \* history: a collaborator call of some append_block failed
    writer,          \* the append_block call in progress, step by step
    reader           \* the exists or read_block call in progress, step by step

vars == <<volumes, meta, dirty, current_volume, current_gen, alive, result,
          issued, retired, calls, faulted, writer, reader>>

\* The in-memory and on-disk state of one BlockStore as one record.
Store == [volumes |-> volumes, meta |-> meta, dirty |-> dirty,
          current_volume |-> current_volume, current_gen |-> current_gen,
          alive |-> alive, trace |-> <<>>]

\* A call made to a collaborator, as the trace of a handler records it.
Call(name, slot) == <<name, slot>>

Traced(s, name, slot) == [s EXCEPT !.trace = Append(@, Call(name, slot))]

NumVolumes(s) == Cardinality(DOMAIN s.volumes)

\* ------------------------------------------------- collaborators (contract)
\* Volume::append_block: the next offset, AKU_EOVERFLOW when full, or an I/O
\* error; with an error the returned offset is whatever the Volume chose.
VolumeAppend(v, data, fails, junk) ==
    IF fails THEN [status |-> AKU_EIO, addr |-> junk, vol |-> v]
    ELSE IF Len(v.blocks) >= v.size
         THEN [status |-> AKU_EOVERFLOW, addr |-> 0, vol |-> v]
         ELSE [status |-> AKU_SUCCESS, addr |-> Len(v.blocks),
               vol |-> [v EXCEPT !.blocks = Append(v.blocks, data)]]

\* Volume::read_block: the block at the offset, or an error.  Offsets at or
\* past the write cursor are invalid (reset() invalidates prior offsets) and
\* leave the caller's buffer as it was.
VolumeRead(v, off, fails) ==
    IF fails \/ off >= Len(v.blocks)
    THEN [status |-> AKU_EIO, data |-> ZeroBlock]
    ELSE [status |-> AKU_SUCCESS, data |-> v.blocks[off + 1]]

\* Volume::reset: the write cursor returns to 0.
VolumeReset(v) == [v EXCEPT !.blocks = <<>>]

\* A newly created MetaVolume: slot i at generation i, holding no blocks.
FreshMeta(n) == [i \in 0..(n - 1) |-> [generation |-> i, nblocks |-> 0]]

\* A newly created Volume file of the given capacity.
FreshVolume(size) == [size |-> size, blocks |-> <<>>]

\* Volume::open_existing(path, nblocks): the write cursor is put at nblocks;
\* what the file holds past the cursor is out of reach, and blocks the file
\* never took read as zeros.
VolumeOpen(v, nblocks) ==
    [v EXCEPT !.blocks = [k \in 1..nblocks |->
                             IF k <= Len(v.blocks) THEN v.blocks[k] ELSE ZeroBlock]]

\* ------------------------------------------------------------- constructor
\* Slots with free space, as the scan of the constructor sees them.
FreeSlots(m, vols) == {i \in DOMAIN vols : vols[i].size > m[i].nblocks}

FirstFree(m, vols) == CHOOSE i \in FreeSlots(m, vols) :
                          \A j \in FreeSlots(m, vols) : i <= j

\* BlockStore::BlockStore over metadata m and opened volumes vols, when some
\* slot has free space.
BlockStore(m, vols) ==
    [volumes |-> vols, meta |-> m, dirty |-> [i \in DOMAIN vols |-> 0],
     current_volume |-> FirstFree(m, vols),
     current_gen |-> m[FirstFree(m, vols)].generation,
     alive |-> TRUE, trace |-> <<>>]

\* Values an uninitialized current_volume_ may hold: any slot, or an index
\* past the last slot (NumVolumes stands for all of those).
IndeterminateVolume(vols) == 0..Cardinality(DOMAIN vols)

\* Values an uninitialized current_gen_ may hold: the ends of its range.
IndeterminateGen == {0, HalfRange - 1}

\* BlockStore::BlockStore over any metadata: when no slot has free space the
\* scan assigns neither current_volume_ nor current_gen_, and the store
\* starts with whatever they hold.
BlockStoreOutcomes(m, vols) ==
    IF FreeSlots(m, vols) # {}
    THEN {BlockStore(m, vols)}
    ELSE {[volumes |-> vols, meta |-> m, dirty |-> [i \in DOMAIN vols |-> 0],
           current_volume |-> cv, current_gen |-> g,
           alive |-> TRUE, trace |-> <<>>] :
             cv \in IndeterminateVolume(vols), g \in IndeterminateGen}

\* ------------------------------------------------------------------- reads
\* Mutant of exists: the offset is compared with <= instead of <.
exists_OffByOne(s, addr, f) ==
    LET gen == extract_gen(addr)
        vol == extract_vol(addr)
        volix == gen % NumVolumes(s)
    IN  IF "get_generation" \in f THEN FALSE
        ELSE IF "get_nblocks" \in f THEN FALSE
        ELSE s.meta[volix].generation = gen /\ vol <= s.meta[volix].nblocks

\* BlockStore::exists.  f is the set of collaborator calls that fail.
exists(s, addr, f) ==
    LET gen == extract_gen(addr)
        vol == extract_vol(addr)
        volix == gen % NumVolumes(s)
        actual_gen == s.meta[volix].generation
        nblocks == s.meta[volix].nblocks
    IN  IF "get_generation" \in f THEN FALSE
        ELSE IF "get_nblocks" \in f THEN FALSE
        ELSE actual_gen = gen /\ vol < nblocks

\* BlockStore::read_block: the status and the payload of the Block returned
\* (ZeroBlock with hasBlock FALSE when no Block is returned).
NoBlock(status) == [status |-> status, hasBlock |-> FALSE, data |-> ZeroBlock]

\* Mutant of read_block: a failed Volume read is reported as AKU_EBAD_ARG.
read_block_Coerced(s, addr, f) ==
    LET gen == extract_gen(addr)
        vol == extract_vol(addr)
        volix == gen % NumVolumes(s)
        rd == VolumeRead(s.volumes[volix], vol, "read_block" \in f)
    IN  IF "get_generation" \in f THEN NoBlock(AKU_EBAD_ARG)
        ELSE IF "get_nblocks" \in f THEN NoBlock(AKU_EBAD_ARG)
        ELSE IF s.meta[volix].generation # gen \/ vol >= s.meta[volix].nblocks
             THEN NoBlock(AKU_EBAD_ARG)
        ELSE IF rd.status # AKU_SUCCESS THEN NoBlock(AKU_EBAD_ARG)
        ELSE [status |-> rd.status, hasBlock |-> TRUE, data |-> rd.data]

read_block(s, addr, f) ==
    LET gen == extract_gen(addr)
        vol == extract_vol(addr)
        volix == gen % NumVolumes(s)
        actual_gen == s.meta[volix].generation
        nblocks == s.meta[volix].nblocks
        rd == VolumeRead(s.volumes[volix], vol, "read_block" \in f)
    IN  IF "get_generation" \in f THEN NoBlock(AKU_EBAD_ARG)
        ELSE IF "get_nblocks" \in f THEN NoBlock(AKU_EBAD_ARG)
        ELSE IF actual_gen # gen \/ vol >= nblocks THEN NoBlock(AKU_EBAD_ARG)
        ELSE IF rd.status # AKU_SUCCESS THEN NoBlock(rd.status)
        ELSE [status |-> rd.status, hasBlock |-> TRUE, data |-> rd.data]

\* ---------------------------------------------------------------- rotation
Panic(s) == [s EXCEPT !.alive = FALSE]

\* Mutant of ResetGeneration: the reset keeps the slot's generation.
ResetGeneration_Kept(s) == s.current_gen

\* Mutant of ResetGeneration: the reset moves to the next generation
\* instead of the slot's next one.
ResetGeneration_PlusOne(s) == (s.current_gen + 1) % HalfRange

\* The generation the reset branch of advance_volume (nblocks # 0) moves to.
ResetGeneration(s) == (s.current_gen + NumVolumes(s)) % HalfRange

\* BlockStore::advance_volume.  A failing MetaVolume call ends in AKU_PANIC
\* with the writes made so far in place.
advance_volume(s, f) ==
    LET cv == (s.current_volume + 1) % NumVolumes(s)
        s1 == [s EXCEPT !.current_volume = cv]
        s2 == [s1 EXCEPT !.current_gen = s.meta[cv].generation]
        nblocks == s.meta[cv].nblocks
        s3 == [s2 EXCEPT !.current_gen = ResetGeneration(s2)]
        s4 == Traced([s3 EXCEPT !.meta[cv].generation = s3.current_gen],
                     "MetaVolume::set_generation", cv)
        s5 == Traced([s4 EXCEPT !.meta[cv].nblocks = 0],
                     "MetaVolume::set_nblocks", cv)
        s6 == Traced([s5 EXCEPT !.volumes[cv] = VolumeReset(@),
                                !.dirty[cv] = @ + 1],
                     "Volume::reset", cv)
    IN  IF "get_generation" \in f THEN Panic(s1)
        ELSE IF "get_nblocks" \in f THEN Panic(s2)
        ELSE IF nblocks # 0
             THEN IF "set_generation" \in f THEN Panic(s3)
                  ELSE IF "set_nblocks_reset" \in f THEN Panic(s4)
                  ELSE s6
             ELSE s2

\* ------------------------------------------------------------------ append
\* BlockStore::append_block: the store afterwards, the status and address
\* returned, and the status of each Volume append attempt made.  When the
\* process panics nothing is returned (status AKU_PANIC marks it).
AKU_PANIC == "AKU_PANIC"

\* Mutant of append_block: a retry that overflows rotates and retries again.
append_block_RetryAgain(s, data, f, junk) ==
    LET cv == s.current_volume
        r1 == VolumeAppend(s.volumes[cv], data, "append_first" \in f, junk)
        s0 == Traced(s, "Volume::append_block", cv)
        a == advance_volume(s0, f)
        r2 == VolumeAppend(a.volumes[a.current_volume], data,
                           "append_retry" \in f, junk)
        a2 == Traced([a EXCEPT !.volumes[a.current_volume] = r2.vol],
                     "Volume::append_block", a.current_volume)
        b == advance_volume(a2, f)
        r3 == VolumeAppend(b.volumes[b.current_volume], data, FALSE, junk)
        b2 == Traced([b EXCEPT !.volumes[b.current_volume] = r3.vol],
                     "Volume::append_block", b.current_volume)
        s1 == [s0 EXCEPT !.volumes[cv] = r1.vol]
        s2 == Traced([s1 EXCEPT !.meta[cv].nblocks = (r1.addr + 1) % HalfRange,
                                !.dirty[cv] = @ + 1],
                     "MetaVolume::set_nblocks", cv)
    IN  IF r1.status = AKU_EOVERFLOW
        THEN IF ~a.alive
             THEN [store |-> a, status |-> AKU_PANIC, addr |-> 0,
                   attempts |-> <<r1.status>>]
             ELSE IF r2.status = AKU_EOVERFLOW /\ b.alive
                  THEN [store |-> b2, status |-> r3.status,
                        addr |-> IF r3.status = AKU_SUCCESS
                                 THEN make_logic(b2.current_gen, r3.addr) ELSE 0,
                        attempts |-> <<r1.status, r2.status, r3.status>>]
             ELSE IF r2.status # AKU_SUCCESS
                  THEN [store |-> a2, status |-> r2.status, addr |-> 0,
                        attempts |-> <<r1.status, r2.status>>]
                  ELSE [store |-> a2, status |-> r2.status,
                        addr |-> make_logic(a2.current_gen, r2.addr),
                        attempts |-> <<r1.status, r2.status>>]
        ELSE IF "set_nblocks" \in f
             THEN [store |-> Panic(s1), status |-> AKU_PANIC, addr |-> 0,
                   attempts |-> <<r1.status>>]
             ELSE [store |-> s2, status |-> AKU_SUCCESS,
                   addr |-> make_logic(s2.current_gen, r1.addr),
                   attempts |-> <<r1.status>>]

append_block(s, data, f, junk) ==
    LET cv == s.current_volume
        r1 == VolumeAppend(s.volumes[cv], data, "append_first" \in f, junk)
        s0 == Traced(s, "Volume::append_block", cv)
        \* overflow: rotate and retry once
        a == advance_volume(s0, f)
        r2 == VolumeAppend(a.volumes[a.current_volume], data,
                           "append_retry" \in f, junk)
        a2 == Traced([a EXCEPT !.volumes[a.current_volume] = r2.vol],
                     "Volume::append_block", a.current_volume)
        \* no overflow: the first attempt's status is not looked at again
        s1 == [s0 EXCEPT !.volumes[cv] = r1.vol]
        s2 == Traced([s1 EXCEPT !.meta[cv].nblocks = (r1.addr + 1) % HalfRange,
                                !.dirty[cv] = @ + 1],
                     "MetaVolume::set_nblocks", cv)
    IN  IF r1.status = AKU_EOVERFLOW
        THEN IF ~a.alive
             THEN [store |-> a, status |-> AKU_PANIC, addr |-> 0,
                   attempts |-> <<r1.status>>]
             ELSE IF r2.status # AKU_SUCCESS
                  THEN [store |-> a2, status |-> r2.status, addr |-> 0,
                        attempts |-> <<r1.status, r2.status>>]
                  ELSE [store |-> a2, status |-> r2.status,
                        addr |-> make_logic(a2.current_gen, r2.addr),
                        attempts |-> <<r1.status, r2.status>>]
        ELSE IF "set_nblocks" \in f
             THEN [store |-> Panic(s1), status |-> AKU_PANIC, addr |-> 0,
                   attempts |-> <<r1.status>>]
             ELSE [store |-> s2, status |-> AKU_SUCCESS,
                   addr |-> make_logic(s2.current_gen, r1.addr),
                   attempts |-> <<r1.status>>]

\* ------------------------------------------------------------------- flush
\* BlockStore::flush from slot ix on.  Its trace holds the flushes issued,
\* in order.
RECURSIVE flush_from(_, _)
flush_from(s, ix) ==
    IF ix < NumVolumes(s)
    THEN IF s.dirty[ix] # 0
         THEN flush_from(Traced([s EXCEPT !.dirty[ix] = 0], "Volume::flush", ix),
                         ix + 1)
         ELSE flush_from(s, ix + 1)
    ELSE Traced(s, "MetaVolume::flush", NumVolumes(s))

\* Mutant of flush: MetaVolume is flushed before the dirty volumes.
RECURSIVE flush_volumes(_, _)
flush_volumes(s, ix) ==
    IF ix < NumVolumes(s)
    THEN IF s.dirty[ix] # 0
         THEN flush_volumes(Traced([s EXCEPT !.dirty[ix] = 0], "Volume::flush", ix),
                            ix + 1)
         ELSE flush_volumes(s, ix + 1)
    ELSE s

flush_MetaFirst(s) ==
    flush_volumes(Traced(s, "MetaVolume::flush", NumVolumes(s)), 0)

\* Mutant of flush: the dirty counters are not cleared.
RECURSIVE flush_dirty_kept(_, _)
flush_dirty_kept(s, ix) ==
    IF ix < NumVolumes(s)
    THEN IF s.dirty[ix] # 0
         THEN flush_dirty_kept(Traced(s, "Volume::flush", ix), ix + 1)
         ELSE flush_dirty_kept(s, ix + 1)
    ELSE Traced(s, "MetaVolume::flush", NumVolumes(s))

flush_KeepsDirty(s) == flush_dirty_kept(s, 0)

flush(s) == flush_from(s, 0)

\* ----------------------------------------------------------------- inputs
\* Collaborator calls of append_block that may fail.  A call ends at its
\* first failure, except that a failed first Volume append goes on to
\* set_nblocks.  A run has collaborator failures in one append_block call.
AppendFaults ==
    {{}} \cup {{p} : p \in {"append_first", "append_retry", "get_generation",
                            "get_nblocks", "set_generation",
                            "set_nblocks_reset", "set_nblocks"}}
         \cup {{"append_first", "set_nblocks"}}

ExistsFaults == {{}, {"get_generation"}, {"get_nblocks"}}

ReadFaults == {{}, {"get_generation"}, {"get_nblocks"}, {"read_block"}}

\* Offsets a failing Volume append may hand back.
JunkOffsets(f) == IF "append_first" \in f THEN 0..MaxCap ELSE {0}

\* Generations in use: those of issued addresses and those stored per slot.
GensInUse ==
    {extract_gen(issued[k].addr) : k \in 1..Len(issued)}
    \cup {meta[i].generation : i \in DOMAIN meta}

\* Addresses in and around the ones in use: every generation from one in
\* use up to one round above it, every offset up to one past the largest
\* capacity.
AllAddrs ==
    {make_logic(g + d, o) :
        g \in GensInUse,
        d \in 0..Cardinality(DOMAIN meta),
        o \in 0..(MaxCap + 1)}

\* Addresses callers ask about: the issued ones and the one the next append
\* on the current volume would get.
ProbeAddrs ==
    {issued[k].addr : k \in 1..Len(issued)}
    \cup (IF current_volume \in DOMAIN meta
          THEN {make_logic(current_gen, meta[current_volume].nblocks)}
          ELSE {})

\* The payload of a call identifies the call, so that any two blocks differ.
Payload == calls + 1

\* ------------------------------------------------------------------- state
\* No append_block call is in progress.
WriterIdle == [pc |-> "idle", data |-> ZeroBlock, block_addr |-> 0]

\* No read is in progress; the fields hold what the last read returned.
ReaderIdle == [pc |-> "idle", op |-> "none", addr |-> 0, actual_gen |-> 0,
               raced |-> FALSE, overlapped |-> FALSE, status |-> AKU_SUCCESS,
               found |-> FALSE, data |-> ZeroBlock]

NoResult(op) == [op |-> op, addr |-> 0, status |-> AKU_SUCCESS, data |-> ZeroBlock,
                 found |-> FALSE, attempts |-> <<>>, log |-> <<>>]

SetStore(s) ==
    /\ volumes' = s.volumes
    /\ meta' = s.meta
    /\ dirty' = s.dirty
    /\ current_volume' = s.current_volume
    /\ current_gen' = s.current_gen
    /\ alive' = s.alive

\* open() of a newly created store of n volumes of one capacity.
Init ==
    \E n \in 1..MaxVolumes :
      \E cap \in 1..MaxCap :
        LET vols == [i \in 0..(n - 1) |-> FreshVolume(cap)]
            s == BlockStore(FreshMeta(n), vols)
        IN  /\ volumes = s.volumes
            /\ meta = s.meta
            /\ dirty = s.dirty
            /\ current_volume = s.current_volume
            /\ current_gen = s.current_gen
            /\ alive = s.alive
            /\ result = NoResult("open")
            /\ issued = <<>>
            /\ retired = {}
            /\ calls = 0
            /\ faulted = FALSE
            /\ writer = WriterIdle
            /\ reader = ReaderIdle

\* Slots whose Volume received reset() in a trace.
ResetSlots(log) == {log[k][2] : k \in {k \in 1..Len(log) : log[k][1] = "Volume::reset"}}

\* A collaborator call of this append_block failed.
Failed(r) == ~r.store.alive \/ \E k \in 1..Len(r.attempts) : r.attempts[k] = AKU_EIO

AppendBlock ==
    /\ alive
    /\ calls < MaxCalls
    /\ current_volume \in DOMAIN volumes
    /\ \E f \in (IF faulted THEN {{}} ELSE AppendFaults) :
         \E junk \in JunkOffsets(f) :
           LET r == append_block(Store, Payload, f, junk)
           IN  /\ SetStore(r.store)
               /\ result' = [NoResult("append_block") EXCEPT
                                !.status = r.status, !.addr = r.addr,
                                !.data = Payload, !.attempts = r.attempts,
                                !.log = r.store.trace]
               /\ issued' = IF r.status = AKU_SUCCESS
                            THEN Append(issued, [addr |-> r.addr, data |-> Payload])
                            ELSE issued
               /\ retired' = retired \cup
                    {issued[k].addr : k \in
                        {k \in 1..Len(issued) :
                            extract_gen(issued[k].addr) % NumVolumes(Store)
                                \in ResetSlots(r.store.trace)}}
               /\ calls' = calls + 1
               /\ faulted' = (faulted \/ Failed(r))
    /\ UNCHANGED <<writer, reader>>

Exists ==
    /\ alive
    /\ \E addr \in ProbeAddrs, f \in ExistsFaults :
         result' = [NoResult("exists") EXCEPT
                       !.addr = addr, !.found = exists(Store, addr, f)]
    /\ UNCHANGED <<volumes, meta, dirty, current_volume, current_gen, alive,
                   issued, retired, calls, faulted, writer, reader>>

\* Mutant of ReadBlock: a read marks the volume it resolves to as dirty.
ReadBlock_Dirtying ==
    /\ alive
    /\ \E addr \in ProbeAddrs, f \in ReadFaults :
         LET r == read_block(Store, addr, f)
         IN  /\ result' = [NoResult("read_block") EXCEPT
                              !.addr = addr, !.status = r.status,
                              !.found = r.hasBlock, !.data = r.data]
             /\ dirty' = [dirty EXCEPT
                              ![extract_gen(addr) % NumVolumes(Store)] = @ + 1]
    /\ UNCHANGED <<volumes, meta, current_volume, current_gen, alive,
                   issued, retired, calls, faulted, writer, reader>>

ReadBlock ==
    /\ alive
    /\ \E addr \in ProbeAddrs, f \in ReadFaults :
         LET r == read_block(Store, addr, f)
         IN  result' = [NoResult("read_block") EXCEPT
                           !.addr = addr, !.status = r.status,
                           !.found = r.hasBlock, !.data = r.data]
    /\ UNCHANGED <<volumes, meta, dirty, current_volume, current_gen, alive,
                   issued, retired, calls, faulted, writer, reader>>

Flush ==
    /\ alive
    /\ LET s == flush(Store)
       IN  /\ SetStore(s)
           /\ result' = [NoResult("flush") EXCEPT !.log = s.trace]
    /\ UNCHANGED <<issued, retired, calls, faulted, writer, reader>>

Next == AppendBlock \/ Exists \/ ReadBlock \/ Flush

Spec == Init /\ [][Next]_vars

\* ------------------------------------------------- opening an existing store
\* The block a Volume file holds at an offset when the store is opened.
Preexisting(i, o) == 0 - (i * (MaxCap + 2) + o + 1)

\* Metadata an earlier run of the ring has left: the slots before some slot
\* k have been reset once, the others never; any block count per slot.
ExistingMeta(n, cap) ==
    {[i \in 0..(n - 1) |->
         [generation |-> IF i < k THEN i + n ELSE i, nblocks |-> nb[i]]] :
       k \in 0..n, nb \in [0..(n - 1) -> 0..cap]}

ExistingVolume(i, size, nblocks) ==
    [size |-> size, blocks |-> [o \in 1..nblocks |-> Preexisting(i, o - 1)]]

\* open() of an existing store.  The run is one without failing appends
\* (faulted is set from the start).
InitOpen ==
    \E n \in 1..MaxVolumes :
      \E cap \in 1..MaxCap :
        \E m \in ExistingMeta(n, cap) :
          LET vols == [i \in 0..(n - 1) |-> ExistingVolume(i, cap, m[i].nblocks)]
          IN  \E s \in BlockStoreOutcomes(m, vols) :
                /\ volumes = s.volumes
                /\ meta = s.meta
                /\ dirty = s.dirty
                /\ current_volume = s.current_volume
                /\ current_gen = s.current_gen
                /\ alive = s.alive
                /\ result = NoResult("open")
                /\ issued = <<>>
                /\ retired = {}
                /\ calls = 0
                /\ faulted = TRUE
                /\ writer = WriterIdle
                /\ reader = ReaderIdle

\* append_block when current_volume_ holds an index past the last slot:
\* volumes_[current_volume_] is an access out of bounds, and the process dies.
AppendBlockOutOfRange ==
    /\ alive
    /\ calls < MaxCalls
    /\ current_volume \notin DOMAIN volumes
    /\ alive' = FALSE
    /\ result' = [NoResult("append_block") EXCEPT !.status = AKU_PANIC,
                                                  !.data = Payload]
    /\ calls' = calls + 1
    /\ UNCHANGED <<volumes, meta, dirty, current_volume, current_gen,
                   issued, retired, faulted, writer, reader>>

\* Lookups of the constructor that may fail.
OpenFaults == {{}, {"get_nblocks"}, {"get_generation"}}

\* The store is closed and opened again over the same files.
Reopen ==
    /\ alive
    /\ \E f \in OpenFaults :
         IF f # {}
         THEN /\ alive' = FALSE
              /\ result' = [NoResult("open") EXCEPT !.status = AKU_PANIC]
              /\ UNCHANGED <<volumes, meta, dirty, current_volume, current_gen>>
         ELSE \E s \in BlockStoreOutcomes(meta,
                          [i \in DOMAIN volumes |->
                              VolumeOpen(volumes[i], meta[i].nblocks)]) :
                /\ SetStore(s)
                /\ result' = NoResult("open")
    /\ UNCHANGED <<issued, retired, calls, faulted, writer, reader>>

NextOpen ==
    AppendBlock \/ AppendBlockOutOfRange \/ Exists \/ ReadBlock \/ Flush \/ Reopen

SpecOpen == InitOpen /\ [][NextOpen]_vars

\* ------------------------------------- one writer and one reader, by steps
\* A step is one collaborator call together with the code of the handler up
\* to its next collaborator call.  Each MetaVolume and Volume call is atomic.
\* The writer makes append_block calls; the Volume appends may fail, the
\* MetaVolume calls do not (a failure there ends the process and the reader
\* with it).
Slot(addr) == extract_gen(addr) % NumVolumes(Store)

\* The reader's call, if one is in progress, has run beside a step of the
\* writer.
MarkRaced ==
    IF reader.pc # "idle" THEN [reader EXCEPT !.raced = TRUE] ELSE reader

\* The reader's call, if one is in progress on the slot, has run beside a
\* step of a reset of the slot.
MarkOverlap(slot) ==
    IF reader.pc # "idle" /\ Slot(reader.addr) = slot
    THEN [reader EXCEPT !.raced = TRUE, !.overlapped = TRUE]
    ELSE MarkRaced

\* Addresses a reader asks about: the issued ones and every offset of the
\* generation each slot is at.
RaceProbes ==
    {issued[k].addr : k \in 1..Len(issued)}
    \cup {make_logic(meta[i].generation, o) :
             i \in DOMAIN meta, o \in 0..(MaxCap - 1)}

Returned(status, addr, data) ==
    [NoResult("append_block") EXCEPT !.status = status, !.addr = addr,
                                     !.data = data]

\* append_block, first attempt.
WAppendFirst ==
    /\ alive
    /\ writer.pc = "idle"
    /\ calls < MaxRaceCalls
    /\ \E fails \in (IF faulted THEN {FALSE} ELSE BOOLEAN) :
         \E junk \in (IF fails THEN 0..MaxCap ELSE {0}) :
           LET r == VolumeAppend(volumes[current_volume], Payload, fails, junk)
           IN  /\ volumes' = [volumes EXCEPT ![current_volume] = r.vol]
               /\ writer' = [pc |-> IF r.status = AKU_EOVERFLOW
                                    THEN "get_generation" ELSE "set_nblocks",
                             data |-> Payload, block_addr |-> r.addr]
               /\ faulted' = (faulted \/ fails)
    /\ calls' = calls + 1
    /\ reader' = MarkRaced
    /\ UNCHANGED <<meta, dirty, current_volume, current_gen, alive, result,
                   issued, retired>>

\* advance_volume: the slot moves on and its generation is looked up.
WGetGeneration ==
    /\ writer.pc = "get_generation"
    /\ current_volume' = (current_volume + 1) % NumVolumes(Store)
    /\ current_gen' = meta[(current_volume + 1) % NumVolumes(Store)].generation
    /\ writer' = [writer EXCEPT !.pc = "get_nblocks"]
    /\ reader' = MarkRaced
    /\ UNCHANGED <<volumes, meta, dirty, alive, result, issued, retired, calls,
                   faulted>>

\* advance_volume: the block count decides whether the slot is reset.
WGetNblocks ==
    /\ writer.pc = "get_nblocks"
    /\ IF meta[current_volume].nblocks # 0
       THEN /\ current_gen' = ResetGeneration(Store)
            /\ writer' = [writer EXCEPT !.pc = "set_generation"]
       ELSE /\ current_gen' = current_gen
            /\ writer' = [writer EXCEPT !.pc = "append_retry"]
    /\ reader' = MarkRaced
    /\ UNCHANGED <<volumes, meta, dirty, current_volume, alive, result, issued,
                   retired, calls, faulted>>

WSetGeneration ==
    /\ writer.pc = "set_generation"
    /\ meta' = [meta EXCEPT ![current_volume].generation = current_gen]
    /\ writer' = [writer EXCEPT !.pc = "set_nblocks_reset"]
    /\ reader' = MarkOverlap(current_volume)
    /\ UNCHANGED <<volumes, dirty, current_volume, current_gen, alive, result,
                   issued, retired, calls, faulted>>

WSetNblocksReset ==
    /\ writer.pc = "set_nblocks_reset"
    /\ meta' = [meta EXCEPT ![current_volume].nblocks = 0]
    /\ writer' = [writer EXCEPT !.pc = "reset"]
    /\ reader' = MarkOverlap(current_volume)
    /\ UNCHANGED <<volumes, dirty, current_volume, current_gen, alive, result,
                   issued, retired, calls, faulted>>

WReset ==
    /\ writer.pc = "reset"
    /\ volumes' = [volumes EXCEPT ![current_volume] = VolumeReset(@)]
    /\ dirty' = [dirty EXCEPT ![current_volume] = @ + 1]
    /\ retired' = retired \cup
          {issued[k].addr : k \in {k \in 1..Len(issued) :
                                     Slot(issued[k].addr) = current_volume}}
    /\ writer' = [writer EXCEPT !.pc = "append_retry"]
    /\ reader' = MarkOverlap(current_volume)
    /\ UNCHANGED <<meta, current_volume, current_gen, alive, result, issued,
                   calls, faulted>>

\* append_block, the retry after the rotation, and its return.
WAppendRetry ==
    /\ writer.pc = "append_retry"
    /\ \E fails \in (IF faulted THEN {FALSE} ELSE BOOLEAN) :
         LET r == VolumeAppend(volumes[current_volume], writer.data, fails, 0)
         IN  /\ volumes' = [volumes EXCEPT ![current_volume] = r.vol]
             /\ faulted' = (faulted \/ fails)
             /\ IF r.status # AKU_SUCCESS
                THEN /\ result' = Returned(r.status, 0, writer.data)
                     /\ issued' = issued
                ELSE /\ result' = Returned(r.status, make_logic(current_gen, r.addr),
                                           writer.data)
                     /\ issued' = Append(issued,
                                         [addr |-> make_logic(current_gen, r.addr),
                                          data |-> writer.data])
    /\ writer' = WriterIdle
    /\ reader' = MarkRaced
    /\ UNCHANGED <<meta, dirty, current_volume, current_gen, alive, retired,
                   calls>>

\* append_block, the block count after a first attempt that did not
\* overflow, and the return.
WSetNblocks ==
    /\ writer.pc = "set_nblocks"
    /\ meta' = [meta EXCEPT
                   ![current_volume].nblocks = (writer.block_addr + 1) % HalfRange]
    /\ dirty' = [dirty EXCEPT ![current_volume] = @ + 1]
    /\ result' = Returned(AKU_SUCCESS, make_logic(current_gen, writer.block_addr),
                          writer.data)
    /\ issued' = Append(issued,
                        [addr |-> make_logic(current_gen, writer.block_addr),
                         data |-> writer.data])
    /\ writer' = WriterIdle
    /\ reader' = MarkRaced
    /\ UNCHANGED <<volumes, current_volume, current_gen, alive, retired, calls,
                   faulted>>

\* What the reader's call returns.
ReaderDone(status, found, data) ==
    [reader EXCEPT !.pc = "idle", !.actual_gen = 0, !.status = status,
                   !.found = found, !.data = data]

\* exists or read_block: the generation lookup.
RGetGeneration ==
    /\ alive
    /\ reader.pc = "idle"
    /\ \E op \in {"exists", "read_block"}, addr \in RaceProbes :
         reader' = [ReaderIdle EXCEPT
                       !.pc = "get_nblocks", !.op = op, !.addr = addr,
                       !.actual_gen = meta[Slot(addr)].generation,
                       !.overlapped = (/\ writer.pc \in {"set_nblocks_reset", "reset"}
                                       /\ current_volume = Slot(addr))]
    /\ UNCHANGED <<volumes, meta, dirty, current_volume, current_gen, alive,
                   result, issued, retired, calls, faulted, writer>>

\* Mutant of RGetNblocks: the offset is compared with <= instead of <.
RGetNblocks_OffByOne ==
    /\ reader.pc = "get_nblocks"
    /\ LET resolves == /\ reader.actual_gen = extract_gen(reader.addr)
                       /\ extract_vol(reader.addr) <= meta[Slot(reader.addr)].nblocks
       IN  reader' = IF reader.op = "exists"
                     THEN ReaderDone(AKU_SUCCESS, resolves, ZeroBlock)
                     ELSE IF ~resolves
                          THEN ReaderDone(AKU_EBAD_ARG, FALSE, ZeroBlock)
                          ELSE [reader EXCEPT !.pc = "read_block"]
    /\ UNCHANGED <<volumes, meta, dirty, current_volume, current_gen, alive,
                   result, issued, retired, calls, faulted, writer>>

\* exists or read_block: the block count lookup and the comparison.
RGetNblocks ==
    /\ reader.pc = "get_nblocks"
    /\ LET resolves == /\ reader.actual_gen = extract_gen(reader.addr)
                       /\ extract_vol(reader.addr) < meta[Slot(reader.addr)].nblocks
       IN  reader' = IF reader.op = "exists"
                     THEN ReaderDone(AKU_SUCCESS, resolves, ZeroBlock)
                     ELSE IF ~resolves
                          THEN ReaderDone(AKU_EBAD_ARG, FALSE, ZeroBlock)
                          ELSE [reader EXCEPT !.pc = "read_block"]
    /\ UNCHANGED <<volumes, meta, dirty, current_volume, current_gen, alive,
                   result, issued, retired, calls, faulted, writer>>

\* read_block: the Volume read.
RReadBlock ==
    /\ reader.pc = "read_block"
    /\ LET r == VolumeRead(volumes[Slot(reader.addr)], extract_vol(reader.addr),
                           FALSE)
       IN  reader' = ReaderDone(r.status, r.status = AKU_SUCCESS, r.data)
    /\ UNCHANGED <<volumes, meta, dirty, current_volume, current_gen, alive,
                   result, issued, retired, calls, faulted, writer>>

NextRace ==
    \/ WAppendFirst \/ WGetGeneration \/ WGetNblocks \/ WSetGeneration
    \/ WSetNblocksReset \/ WReset \/ WAppendRetry \/ WSetNblocks
    \/ RGetGeneration \/ RGetNblocks \/ RReadBlock

SpecRace == Init /\ [][NextRace]_vars

\* ================================================================== claims
IssuedAddrs == {issued[k].addr : k \in 1..Len(issued)}

\* C1: for every address a that a successful append_block(d) returned,
\* read_block(a) never succeeds with bytes other than d.
C1_ReadsWhatWasWritten ==
    \A k \in 1..Len(issued) :
        \A f \in ReadFaults :
            LET r == read_block(Store, issued[k].addr, f)
            IN  r.status = AKU_SUCCESS => (r.hasBlock /\ r.data = issued[k].data)

\* C2: when append_block(data) succeeds and returns addr in a run without
\* collaborator failures, read_block(addr) called right after it succeeds
\* with bytes equal to data and exists(addr) is true.
C2_RoundTrip ==
    (result.op = "append_block" /\ result.status = AKU_SUCCESS /\ ~faulted)
        => /\ read_block(Store, result.addr, {}).status = AKU_SUCCESS
           /\ read_block(Store, result.addr, {}).data = result.data
           /\ exists(Store, result.addr, {})

\* C3: any two distinct append_block calls that both return success return
\* different logical addresses.
C3_NoCollision ==
    \A j, k \in 1..Len(issued) : j # k => issued[j].addr # issued[k].addr

\* C4: once rotation has reset a volume slot, every address issued against
\* that slot's earlier generation stays unresolvable: exists is false and
\* read_block returns AKU_EBAD_ARG, whatever the collaborators do.
C4_Staleness ==
    \A a \in retired :
        /\ \A f \in ExistsFaults : ~exists(Store, a, f)
        /\ \A f \in ReadFaults : read_block(Store, a, f).status = AKU_EBAD_ARG

\* C4 witness: read_block has just been called on, and refused, an address
\* whose slot was reset and has been written to again since.
C4_Witness ==
    /\ result.op = "read_block"
    /\ result.addr \in retired
    /\ result.status = AKU_EBAD_ARG
    /\ meta[extract_gen(result.addr) % NumVolumes(Store)].nblocks
           > extract_vol(result.addr)

\* C5: in a run without collaborator failures on a fresh store whose volumes
\* all hold at least one block, no append_block call returns AKU_EOVERFLOW.
C5_OverflowAbsorbed ==
    (/\ result.op = "append_block"
     /\ ~faulted
     /\ \A i \in DOMAIN volumes : volumes[i].size >= 1)
        => result.status # AKU_EOVERFLOW

\* C6: when the first Volume append of an append_block call fails with a
\* status other than AKU_EOVERFLOW, the call returns that status and no
\* address, and current_volume is the same after the call as before.
C6_FirstFailureReturned ==
    [][(/\ result'.op = "append_block"
        /\ result'.attempts # <<>>
        /\ result'.attempts[1] \notin {AKU_SUCCESS, AKU_EOVERFLOW}
        /\ alive')
          => /\ result'.status = result'.attempts[1]
             /\ result'.addr = 0
             /\ current_volume' = current_volume]_vars

\* C7: the generation MetaVolume stores for a slot never decreases, changes
\* only in a call that resets the slot (or dies resetting it), and a reset
\* raises it by exactly the number of volumes.
C7_GenerationMonotone ==
    [][\A i \in DOMAIN meta :
          /\ meta'[i].generation >= meta[i].generation
          /\ meta'[i].generation # meta[i].generation
                => (i \in ResetSlots(result'.log) \/ ~alive')
          /\ meta'[i].generation # meta[i].generation
                => meta'[i].generation = meta[i].generation + NumVolumes(Store)
          /\ (result'.op = "append_block" /\ i \in ResetSlots(result'.log))
                => meta'[i].generation = meta[i].generation + NumVolumes(Store)]_vars

\* C7 witness: an append_block call on a store of two volumes has just
\* reset slot 0, whose generation went from 0 to 2.
C7_Witness ==
    /\ result.op = "append_block"
    /\ NumVolumes(Store) = 2
    /\ 0 \in ResetSlots(result.log)
    /\ meta[0].generation = 2

\* C8 as stated: for every address, exists(addr) is true if and only if
\* read_block(addr) returns success.
C8_ExistsIffReadSucceeds ==
    \A a \in AllAddrs :
        \A fe \in ExistsFaults, fr \in ReadFaults :
            exists(Store, a, fe) <=> (read_block(Store, a, fr).status = AKU_SUCCESS)

\* The Volume read that read_block(addr) delegates to does not fail.
VolumeReadable(a) ==
    VolumeRead(volumes[extract_gen(a) % NumVolumes(Store)], extract_vol(a),
               FALSE).status = AKU_SUCCESS

\* C8 amended: for every address, when no MetaVolume lookup fails and the
\* Volume read does not fail, exists(addr) is true if and only if
\* read_block(addr) returns success; a failing lookup or Volume read makes
\* exists false and read_block unsuccessful.
C8_ExistsIffReadResolves ==
    \A a \in AllAddrs :
        /\ VolumeReadable(a) =>
              (exists(Store, a, {})
                  <=> (read_block(Store, a, {}).status = AKU_SUCCESS))
        /\ read_block(Store, a, {}).status = AKU_SUCCESS => exists(Store, a, {})
        /\ \A fe \in ExistsFaults \ {{}} : ~exists(Store, a, fe)
        /\ \A fr \in ReadFaults \ {{}} :
              read_block(Store, a, fr).status # AKU_SUCCESS

\* C8 witness: exists has just answered true for an address that read_block
\* resolves, while another issued address is stale for both.
C8_Witness ==
    /\ result.op = "exists"
    /\ result.found
    /\ read_block(Store, result.addr, {}).status = AKU_SUCCESS
    /\ \E a \in IssuedAddrs :
          /\ ~exists(Store, a, {})
          /\ read_block(Store, a, {}).status = AKU_EBAD_ARG

\* C9: on a fresh store of N volumes of one capacity C >= 1, the k-th
\* successful append_block (k counted from 0) returns the address with
\* generation floor(k / C) and offset k mod C.
C9_AddressSequence ==
    \A k \in 1..Len(issued) :
        LET C == volumes[0].size
        IN  issued[k].addr = make_logic((k - 1) \div C, (k - 1) % C)

\* Position of the first occurrence of call c in a trace (0 when absent).
FirstAt(log, c) ==
    IF \E k \in 1..Len(log) : log[k] = c
    THEN CHOOSE k \in 1..Len(log) :
             log[k] = c /\ \A j \in 1..(k - 1) : log[j] # c
    ELSE 0

\* C10: in one flush() call every Volume whose dirty counter is nonzero is
\* flushed before MetaVolume, MetaVolume is flushed on every call, last and
\* once, and all dirty counters are zero when the call returns.
C10_FlushOrdering ==
    [][result'.op = "flush" =>
         LET log == result'.log
             m == Call("MetaVolume::flush", NumVolumes(Store))
         IN  /\ FirstAt(log, m) = Len(log)
             /\ Len(log) >= 1
             /\ \A i \in DOMAIN dirty :
                   dirty[i] # 0 =>
                      /\ FirstAt(log, Call("Volume::flush", i)) >= 1
                      /\ FirstAt(log, Call("Volume::flush", i)) < FirstAt(log, m)
             /\ \A i \in DOMAIN dirty : dirty'[i] = 0]_vars

\* C10 witness: a flush() on a store of two volumes, both dirty, has issued
\* both Volume flushes and then the MetaVolume flush.
C10_Witness ==
    /\ result.op = "flush"
    /\ result.log = <<Call("Volume::flush", 0), Call("Volume::flush", 1),
                      Call("MetaVolume::flush", 2)>>
    /\ \A i \in DOMAIN dirty : dirty[i] = 0

\* Number of calls with the given name in a trace.
CallsNamed(log, name) == Cardinality({k \in 1..Len(log) : log[k][1] = name})

\* C11: in the state a flush() leaves, a second flush() issues no Volume
\* flush and leaves MetaVolume generations, block counts and Volume contents
\* as they were.
C11_FlushIdempotent ==
    result.op = "flush" =>
        LET again == flush(Store)
        IN  /\ CallsNamed(again.trace, "Volume::flush") = 0
            /\ again.meta = meta
            /\ again.volumes = volumes

\* C11 witness: a flush() has just found nothing dirty on a store that holds
\* blocks, after an earlier flush() that flushed a Volume.
C11_Witness ==
    /\ result.op = "flush"
    /\ result.log = <<Call("MetaVolume::flush", NumVolumes(Store))>>
    /\ \E i \in DOMAIN volumes : Len(volumes[i].blocks) > 0 /\ meta[i].nblocks > 0

\* The address does not resolve: a lookup fails, the generation differs or
\* the offset is not below the block count.
Unresolved(a, f) ==
    \/ "get_generation" \in f
    \/ "get_nblocks" \in f
    \/ meta[extract_gen(a) % NumVolumes(Store)].generation # extract_gen(a)
    \/ extract_vol(a) >= meta[extract_gen(a) % NumVolumes(Store)].nblocks

\* C12: read_block returns AKU_EBAD_ARG exactly when the address does not
\* resolve; when it resolves and the Volume read fails, the Volume's status
\* is returned and no Block.
C12_ReadErrorMapping ==
    \A a \in AllAddrs :
        \A f \in ReadFaults :
            LET r == read_block(Store, a, f)
                vr == VolumeRead(volumes[extract_gen(a) % NumVolumes(Store)],
                                 extract_vol(a), "read_block" \in f)
            IN  /\ (r.status = AKU_EBAD_ARG) <=> Unresolved(a, f)
                /\ (~Unresolved(a, f) /\ vr.status # AKU_SUCCESS)
                      => (r.status = vr.status /\ ~r.hasBlock)
                /\ r.hasBlock <=> (r.status = AKU_SUCCESS)

\* C12 witness: read_block has just returned a failing Volume's status, and
\* no Block, for an address that resolves.
C12_Witness ==
    /\ result.op = "read_block"
    /\ result.status = AKU_EIO
    /\ ~result.found
    /\ ~Unresolved(result.addr, {})

\* C13: in a run without collaborator failures, between calls, the block
\* count MetaVolume stores for a slot equals the number of blocks its Volume
\* holds since its last reset.
C13_MetadataLockStep ==
    ~faulted =>
        \A i \in DOMAIN meta : meta[i].nblocks = Len(volumes[i].blocks)

\* C14: a Volume that has received an append since it was last flushed has a
\* nonzero dirty counter.  Stated of the state a successful append_block
\* leaves, in a run without collaborator failures: the Volume that took the
\* block has not been flushed since.
C14_FlushCompleteness ==
    (result.op = "append_block" /\ result.status = AKU_SUCCESS /\ ~faulted)
        => dirty[current_volume] # 0

C20_ReadsArePure ==
    [][result'.op \in {"exists", "read_block"} =>
         /\ meta' = meta
         /\ volumes' = volumes
         /\ current_volume' = current_volume
         /\ current_gen' = current_gen
         /\ dirty' = dirty]_vars

\* C20 witness: a read_block has just succeeded on a store with a dirty
\* volume.
C20_Witness ==
    /\ result.op = "read_block"
    /\ result.status = AKU_SUCCESS
    /\ result.found
    /\ \E i \in DOMAIN dirty : dirty[i] # 0

\* C15: the cached generation names the current slot (current_gen modulo
\* the volume count is current_volume), and an address append_block returns
\* decodes to the slot whose Volume was appended to.
C15_SlotGenerationAgreement ==
    /\ alive => current_gen % NumVolumes(Store) = current_volume
    /\ (alive /\ result.op = "append_block" /\ result.status = AKU_SUCCESS)
          => result.log[Len(result.log) - (IF Len(result.attempts) = 1 THEN 1 ELSE 0)]
                = Call("Volume::append_block",
                       extract_gen(result.addr) % NumVolumes(Store))

\* C16: between operations current_volume is a slot of the store and
\* current_gen is the generation MetaVolume stores for that slot.
C16_CachedGeneration ==
    alive => /\ current_volume \in DOMAIN volumes
             /\ current_gen = meta[current_volume].generation

\* The stores a close and open of the present store may give.
Reopened ==
    BlockStoreOutcomes(meta, [i \in DOMAIN volumes |->
                                 VolumeOpen(volumes[i], meta[i].nblocks)])

\* C17: after successful appends and a flush(), closing and opening the
\* store over metadata with a free slot gives a store that answers exists
\* alike for every issued address and whose next append_block returns what
\* it would have returned without the reopen.
C17_ReopenEquivalence ==
    (/\ result.op = "flush"
     /\ ~faulted
     /\ Len(issued) = calls
     /\ FreeSlots(meta, volumes) # {})
        => \A r \in Reopened :
              /\ \A a \in IssuedAddrs : exists(r, a, {}) = exists(Store, a, {})
              /\ append_block(r, Payload, {}, 0).status
                    = append_block(Store, Payload, {}, 0).status
              /\ append_block(r, Payload, {}, 0).addr
                    = append_block(Store, Payload, {}, 0).addr

AboutToReturn(a, d) ==
    /\ writer'.pc = "set_nblocks"
    /\ make_logic(current_gen', writer'.block_addr) = a
    /\ writer'.data = d

====
